---- MODULE Spec2Model ----
(***************************************************************************)
(* Model of MONAI_BYOS_spleen_segmentation_3D_Task.ipynb: the notebook's   *)
(* code cells run in document order inside one Python kernel; a cell that  *)
(* raises stops the run.  The local file system, the S3 bucket and the     *)
(* SageMaker resources outlive the kernel, so a restarted run starts from  *)
(* whatever an earlier run left behind.                                    *)
(***************************************************************************)
EXTENDS Integers, Sequences, FiniteSets, TLC

VARIABLES
  pc,                 \* the code cell that runs next ("done" after the last)
  err,                \* "none", or the cell whose exception stopped the run
  \* ---- local file system (survives a kernel restart)
  dataDir,            \* os.path.exists(data_dir)
  imagesTr,           \* ids of the files in datasets/Task09_Spleen/imagesTr
  labelsTr,           \* ids of the files in datasets/Task09_Spleen/labelsTr
  processedTrain,     \* files copied under processed/train
  processedTest,      \* files copied under processed/test
  \* ---- S3 bucket and SageMaker (survive a kernel restart)
  s3Train,            \* objects under MONAI_Segmentation/train
  s3Test,             \* objects under MONAI_Segmentation/test
  s3Results,          \* inference results the endpoint has stored
  modelArtifact,      \* a training job has completed and stored its model
  endpoints,          \* ids of the endpoints in service
  \* ---- kernel namespace (cleared by a kernel restart)
  data_dicts,
  train_files,
  test_demo_files,
  image,              \* depth (last dimension) of the loaded image, 0: unbound
  S3_inputs,          \* TRUE once sess.upload_data has returned the S3 URI
  predictor,          \* 0: unbound, else the id of the endpoint it talks to
  test_demo_preds,
  counter,            \* the slice loop's variable
  totalslice,
  file,               \* name of the test image, 0: unbound
  response_multi_pred,
  response_all_pred,
  \* ---- history of the current run (observation only)
  callLog,            \* external calls made so far, each with its outcome
  requests,           \* predictor.predict calls: payload and response
  presentAtStart      \* was the dataset on disk when the download cell began

vars == <<pc, err, dataDir, imagesTr, labelsTr, processedTrain, processedTest,
          s3Train, s3Test, s3Results, modelArtifact, endpoints,
          data_dicts, train_files, test_demo_files, image, S3_inputs,
          predictor, test_demo_preds, counter, totalslice, file,
          response_multi_pred, response_all_pred,
          callLog, requests, presentAtStart>>

fsVars     == <<dataDir, imagesTr, labelsTr, processedTrain, processedTest>>
cloudVars  == <<s3Train, s3Test, s3Results, modelArtifact, endpoints>>
splitVars  == <<data_dicts, train_files, test_demo_files>>
loopVars   == <<test_demo_preds, counter, totalslice, file>>
respVars   == <<response_multi_pred, response_all_pred>>
histVars   == <<callLog, requests, presentAtStart>>

(***************************************************************************)
(* Bounds of the model.                                                    *)
(***************************************************************************)
NumPairs     == 3     \* image/label pairs in the published archive
MaxDepth     == 83    \* largest depth a loaded volume may have
MaxEndpoints == 2     \* endpoints left in service before runs stop restarting

(***************************************************************************)
(* Constants of the notebook.                                              *)
(***************************************************************************)
VisSlice    == 80     \* image[:, :, 80]
nsliceend   == 10     \* nsliceend=10
nslicestart == 0      \* nslicestart = 0
ShowSlice   == 1      \* nslice=1
slicestart  == 70     \* slicestart=70
sliceend    == 75     \* sliceend=75

Ids    == 1..NumPairs
Depths == 1..MaxDepth

(***************************************************************************)
(* Strings are sequences of one-character strings, so that formatting and  *)
(* parsing are computed rather than assumed.                               *)
(***************************************************************************)
DigitChars == <<"0", "1", "2", "3", "4", "5", "6", "7", "8", "9">>

RECURSIVE FormatInt(_)
\* str(n) of a non-negative int, as the f-string's {slicestart} renders it
FormatInt(n) ==
  IF n < 10 THEN <<DigitChars[n + 1]>>
  ELSE FormatInt(n \div 10) \o <<DigitChars[(n % 10) + 1]>>

IsDigit(c) == \E d \in 1..10 : DigitChars[d] = c

IsNumeral(s) == Len(s) > 0 /\ \A i \in 1..Len(s) : IsDigit(s[i])

\* "start:end": exactly one colon, a numeral on each side
IsRangeString(s) ==
  \E i \in 1..Len(s) :
     /\ s[i] = ":"
     /\ IsNumeral(SubSeq(s, 1, i - 1))
     /\ IsNumeral(SubSeq(s, i + 1, Len(s)))

AllString == <<"a", "l", "l">>

IntVal(n) == [type |-> "int", val |-> n]
StrVal(s) == [type |-> "str", val |-> s]

(***************************************************************************)
(* Paths: a directory and the id of the file spleen_<id>.nii.gz in it.     *)
(***************************************************************************)
ImagePath(i) == [dir |-> "Spleen3D/datasets/Task09_Spleen/imagesTr", base |-> i]
LabelPath(i) == [dir |-> "Spleen3D/datasets/Task09_Spleen/labelsTr", base |-> i]

\* path.split("/")[-1]
Basename(p) == p.base

RECURSIVE SortedIds(_)
\* sorted(glob.glob(...)): the ids of a directory's files in ascending order
SortedIds(S) ==
  IF S = {} THEN <<>>
  ELSE LET m == CHOOSE x \in S : \A y \in S : x <= y
       IN <<m>> \o SortedIds(S \ {m})

Min(a, b) == IF a <= b THEN a ELSE b

\* [{"image": i, "label": l} for i, l in zip(train_images, train_labels)]
Zip(imgs, labs) ==
  [k \in 1..Min(Len(imgs), Len(labs)) |->
     [image |-> ImagePath(imgs[k]), label |-> LabelPath(labs[k])]]

\* data_dicts[:-1]
AllButLast(s) == IF Len(s) = 0 THEN <<>> ELSE SubSeq(s, 1, Len(s) - 1)

\* data_dicts[-1:]
LastSlice(s) == IF Len(s) = 0 THEN <<>> ELSE SubSeq(s, Len(s), Len(s))

DatasetPresent == imagesTr = Ids /\ labelsTr = Ids

(***************************************************************************)
(* The cells' order in the document, and what running one costs the run.   *)
(***************************************************************************)
\* a notebook whose deployment cell stands before its training cell
CellOrderDeployFirst ==
  <<"download", "split", "visualize", "mkdirs", "copy_train", "copy_test",
    "upload_train", "upload_test", "deploy", "fit", "loop_setup", "loop",
    "show", "predict_multi", "predict_all", "cleanup", "done">>

CellOrder ==
  <<"download", "split", "visualize", "mkdirs", "copy_train", "copy_test",
    "upload_train", "upload_test", "fit", "deploy", "loop_setup", "loop",
    "show", "predict_multi", "predict_all", "cleanup", "done">>

CellIndex(c) == CHOOSE i \in 1..Len(CellOrder) : CellOrder[i] = c

NextCell(c) == CellOrder[CellIndex(c) + 1]

Running(c) == pc = c /\ err = "none"

\* the cell ran to its end: the kernel goes on to the next cell
Advance == pc' = NextCell(pc) /\ err' = err

\* an exception left the cell: nothing catches it and the run stops there
Raise == pc' = pc /\ err' = pc

Call(name, ok) == [call |-> name, ok |-> ok]

(***************************************************************************)
(* Download images from public bucket.                                     *)
(***************************************************************************)
\* what monai.apps.download_and_extract can do to the disk and the run
DownloadOutcomes == {"download_failed", "md5_mismatch", "extract_failed", "ok"}

\* if not os.path.exists(data_dir)
ShouldDownload == ~dataDir

DownloadCell ==
  /\ Running("download")
  /\ presentAtStart' = DatasetPresent
  /\ IF ShouldDownload
     THEN \E o \in DownloadOutcomes, imgs \in SUBSET Ids, labs \in SUBSET Ids :
            /\ (o = "extract_failed") => ~(imgs = Ids /\ labs = Ids)
            /\ (o = "ok") => (imgs = Ids /\ labs = Ids)
            /\ (o \in {"download_failed", "md5_mismatch"}) => (imgs = {} /\ labs = {})
            /\ callLog' = callLog \o
                 CASE o = "download_failed" -> <<Call("download", FALSE)>>
                   [] o = "md5_mismatch"    -> <<Call("download", TRUE), Call("check_hash", FALSE)>>
                   [] o = "extract_failed"  -> <<Call("download", TRUE), Call("check_hash", TRUE),
                                                 Call("extract", FALSE)>>
                   [] o = "ok"              -> <<Call("download", TRUE), Call("check_hash", TRUE),
                                                 Call("extract", TRUE)>>
            /\ dataDir' = (o \in {"extract_failed", "ok"})
            /\ imagesTr' = imgs
            /\ labelsTr' = labs
            /\ IF o = "ok" THEN Advance ELSE Raise
     ELSE /\ Advance
          /\ UNCHANGED <<dataDir, imagesTr, labelsTr, callLog>>
  /\ UNCHANGED <<processedTrain, processedTest, cloudVars, splitVars, image,
                 S3_inputs, predictor, loopVars, respVars, requests>>

(***************************************************************************)
(* Divide the images into training and testing dataset.                    *)
(***************************************************************************)
SplitCell ==
  /\ Running("split")
  /\ LET dd == Zip(SortedIds(imagesTr), SortedIds(labelsTr))
     IN /\ data_dicts' = dd
        /\ train_files' = AllButLast(dd)
        /\ test_demo_files' = LastSlice(dd)
  /\ Advance
  /\ UNCHANGED <<fsVars, cloudVars, image, S3_inputs, predictor, loopVars,
                 respVars, histVars>>

(***************************************************************************)
(* Visualize the image and label.                                          *)
(***************************************************************************)
\* an indexing that never complains
IndexUnchecked(k, d) == TRUE

\* index k is inside a dimension of size d
IndexInRange(k, d) == 0 <= k /\ k < d

VisualizeCell ==
  /\ Running("visualize")
  /\ IF Len(test_demo_files) = 0
     THEN \* first(check_loader) is None: check_data["image"] raises
          Raise /\ UNCHANGED image
     ELSE \E d \in Depths :
            /\ image' = d
            /\ IF IndexInRange(VisSlice, d) THEN Advance ELSE Raise
  /\ UNCHANGED <<fsVars, cloudVars, splitVars, S3_inputs, predictor, loopVars,
                 respVars, histVars>>

(***************************************************************************)
(* Separately store the dataset into training and testing.                 *)
(***************************************************************************)
MkdirsCell ==
  /\ Running("mkdirs")
  /\ dataDir' = TRUE
  /\ Advance
  /\ UNCHANGED <<imagesTr, labelsTr, processedTrain, processedTest, cloudVars,
                 splitVars, image, S3_inputs, predictor, loopVars, respVars,
                 histVars>>

\* the shutil.copy calls of one copy loop, in order: image, then label
CopyList(files) ==
  [k \in 1..(2 * Len(files)) |->
     IF k % 2 = 1
     THEN [sub |-> "imagesTr", base |-> Basename(files[(k + 1) \div 2].image)]
     ELSE [sub |-> "labelsTr", base |-> Basename(files[k \div 2].label)]]

\* a copy loop over `files` into the directory whose content is `dest`;
\* `failAt` = 0: every copy succeeds, else the failAt-th copy raises
CopyLoop(files, dest, failAt) ==
  LET todo == CopyList(files)
      n == IF failAt = 0 THEN Len(todo) ELSE failAt - 1
  IN [files |-> dest \cup {todo[k] : k \in 1..n},
      calls |-> [k \in 1..(IF failAt = 0 THEN n ELSE failAt) |->
                   Call("copy", k <= n)]]

CopyTrainCell ==
  /\ Running("copy_train")
  /\ \E failAt \in 0..(2 * Len(train_files)) :
       LET r == CopyLoop(train_files, processedTrain, failAt)
       IN /\ processedTrain' = r.files
          /\ callLog' = callLog \o r.calls
          /\ IF failAt = 0 THEN Advance ELSE Raise
  /\ UNCHANGED <<dataDir, imagesTr, labelsTr, processedTest, cloudVars,
                 splitVars, image, S3_inputs, predictor, loopVars, respVars,
                 requests, presentAtStart>>

CopyTestCell ==
  /\ Running("copy_test")
  /\ \E failAt \in 0..(2 * Len(test_demo_files)) :
       LET r == CopyLoop(test_demo_files, processedTest, failAt)
       IN /\ processedTest' = r.files
          /\ callLog' = callLog \o r.calls
          /\ IF failAt = 0 THEN Advance ELSE Raise
  /\ UNCHANGED <<dataDir, imagesTr, labelsTr, processedTrain, cloudVars,
                 splitVars, image, S3_inputs, predictor, loopVars, respVars,
                 requests, presentAtStart>>

(***************************************************************************)
(* Upload datasets to S3.                                                  *)
(***************************************************************************)
UploadTrainCell ==
  /\ Running("upload_train")
  /\ \E ok \in BOOLEAN :
       /\ callLog' = Append(callLog, Call("upload_train", ok))
       /\ IF ok
          THEN /\ s3Train' = s3Train \cup processedTrain
               /\ S3_inputs' = TRUE
               /\ Advance
          ELSE /\ UNCHANGED <<s3Train, S3_inputs>>
               /\ Raise
  /\ UNCHANGED <<fsVars, s3Test, s3Results, modelArtifact, endpoints, splitVars,
                 image, predictor, loopVars, respVars, requests, presentAtStart>>

\* path=processed_test_images_path: the images only
UploadTestCell ==
  /\ Running("upload_test")
  /\ \E ok \in BOOLEAN :
       /\ callLog' = Append(callLog, Call("upload_test", ok))
       /\ IF ok
          THEN /\ s3Test' = s3Test \cup {f.base : f \in {g \in processedTest : g.sub = "imagesTr"}}
               /\ Advance
          ELSE /\ UNCHANGED s3Test
               /\ Raise
  /\ UNCHANGED <<fsVars, s3Train, s3Results, modelArtifact, endpoints, splitVars,
                 image, S3_inputs, predictor, loopVars, respVars, requests,
                 presentAtStart>>

(***************************************************************************)
(* SageMaker training job: estimator.fit(S3_inputs) waits for the job.     *)
(***************************************************************************)
FitCell ==
  /\ Running("fit")
  /\ \E ok \in BOOLEAN :
       /\ callLog' = Append(callLog, Call("fit", ok))
       /\ IF ok
          THEN modelArtifact' = TRUE /\ Advance
          ELSE UNCHANGED modelArtifact /\ Raise
  /\ UNCHANGED <<fsVars, s3Train, s3Test, s3Results, endpoints, splitVars, image,
                 S3_inputs, predictor, loopVars, respVars, requests,
                 presentAtStart>>

(***************************************************************************)
(* Create endpoint.  The cell is published with <to do> in place of the    *)
(* instance type, the serializer and the deserializer: as published it is  *)
(* a SyntaxError, and it deploys once the reader has filled them in as the *)
(* challenge asks (a selected instance type, JSON both ways).              *)
(***************************************************************************)
\* the platform names each new endpoint afresh
FreshEndpoint == CHOOSE e \in 1..(MaxEndpoints + 1) : e \notin endpoints

DeployCell ==
  /\ Running("deploy")
  /\ \E filled \in BOOLEAN, ok \in BOOLEAN :
       IF ~filled
       THEN /\ ~ok
            /\ Raise
            /\ UNCHANGED <<callLog, endpoints, predictor>>
       ELSE /\ callLog' = Append(callLog, Call("deploy", ok))
            /\ IF ok
               THEN /\ endpoints' = endpoints \cup {FreshEndpoint}
                    /\ predictor' = FreshEndpoint
                    /\ Advance
               ELSE /\ UNCHANGED <<endpoints, predictor>>
                    /\ Raise
  /\ UNCHANGED <<fsVars, s3Train, s3Test, s3Results, modelArtifact, splitVars,
                 image, S3_inputs, loopVars, respVars, requests, presentAtStart>>

(***************************************************************************)
(* The endpoint (code/inference.py behind predictor.predict).              *)
(***************************************************************************)
bucket    == "default-bucket"
prefix_key == "MONAI_Segmentation/test"

\* where the endpoint saves the result of a multi-slice request
ResultLocation(p) ==
  [bucket |-> p.bucket, key |-> p.key, file |-> p.file, slices |-> p.nslice.val]

\* the request names an uploaded image and a slice selector the endpoint knows
CanServe(p) ==
  /\ p.bucket = bucket /\ p.key = prefix_key /\ p.file \in s3Test
  /\ \/ p.nslice.type = "int"
     \/ p.nslice.type = "str" /\ (p.nslice.val = AllString \/ IsRangeString(p.nslice.val))

\* an endpoint that also answers "all" with the pixels
ReturnsPixelsForAll(p) ==
  p.nslice.type = "int" \/ (p.nslice.type = "str" /\ p.nslice.val = AllString)

\* an integer selects one slice, whose prediction comes back in the response
ReturnsPixels(p) == p.nslice.type = "int"

EndpointResponse(p) ==
  IF ReturnsPixels(p)
  THEN [type |-> "pixels", pred |-> [file |-> p.file, slice |-> p.nslice.val]]
  ELSE [type |-> "s3uri", uri |-> ResultLocation(p)]

EndpointStores(p) == IF ReturnsPixels(p) THEN {} ELSE {ResultLocation(p)}

ErrorResponse == [type |-> "error"]

\* predictor.predict(p): the call's possible results
PredictResults(p) ==
  {ErrorResponse} \cup (IF predictor # 0 /\ CanServe(p) THEN {EndpointResponse(p)} ELSE {})

(***************************************************************************)
(* Inference for multiple slices by looping the endpoint API calls.        *)
(***************************************************************************)
payload(nslice) ==
  [bucket |-> bucket, key |-> prefix_key, file |-> file, nslice |-> IntVal(nslice)]

LoopSetup ==
  /\ Running("loop_setup")
  /\ test_demo_preds' = <<>>
  /\ totalslice' = image
  /\ counter' = nslicestart
  /\ IF Len(test_demo_files) = 0
     THEN UNCHANGED file /\ Raise
     ELSE file' = Basename(test_demo_files[1].image) /\ Advance
  /\ UNCHANGED <<fsVars, cloudVars, splitVars, image, S3_inputs, predictor,
                 respVars, histVars>>

\* for counter in range(int(nslicestart), int(nsliceend))
LoopContinues == counter < nsliceend

\* a loop body wrapped in try/except that skips a failed slice
LoopBodySwallow(r) ==
  /\ test_demo_preds' = IF r = ErrorResponse THEN test_demo_preds
                                              ELSE Append(test_demo_preds, r)
  /\ counter' = counter + 1
  /\ pc' = pc /\ err' = err

\* one pass of the loop body: what a response, or an exception, does
LoopBody(r) ==
  IF r = ErrorResponse
  THEN /\ UNCHANGED <<test_demo_preds, counter>>
       /\ Raise
  ELSE /\ test_demo_preds' = Append(test_demo_preds, r)
       /\ counter' = counter + 1
       /\ pc' = pc /\ err' = err

LoopIter ==
  /\ Running("loop")
  /\ IF LoopContinues
     THEN \E r \in PredictResults(payload(counter)) :
            /\ callLog' = Append(callLog, Call("predict", r # ErrorResponse))
            /\ requests' = Append(requests, [payload |-> payload(counter), response |-> r])
            /\ LoopBody(r)
     ELSE /\ Advance
          /\ UNCHANGED <<test_demo_preds, counter, callLog, requests>>
  /\ UNCHANGED <<fsVars, cloudVars, splitVars, image, S3_inputs, predictor,
                 totalslice, file, respVars, presentAtStart>>

\* test_demo_preds[nslice]["pred"] with nslice=1
ShowCell ==
  /\ Running("show")
  /\ IF /\ Len(test_demo_preds) > ShowSlice
        /\ test_demo_preds[ShowSlice + 1].type = "pixels"
     THEN Advance
     ELSE Raise
  /\ UNCHANGED <<fsVars, cloudVars, splitVars, image, S3_inputs, predictor,
                 loopVars, respVars, histVars>>

(***************************************************************************)
(* Inference on a selection of slices, and on all slices.                  *)
(***************************************************************************)
\* f"{slicestart}-{sliceend}"
sliceselectDash == FormatInt(slicestart) \o <<"-">> \o FormatInt(sliceend)

\* f"{slicestart}:{sliceend}"
sliceselect == FormatInt(slicestart) \o <<":">> \o FormatInt(sliceend)

payload_multi ==
  [bucket |-> bucket, key |-> prefix_key, file |-> file,
   nslice |-> StrVal(sliceselect)]

payload_all ==
  [bucket |-> bucket, key |-> prefix_key, file |-> file, nslice |-> StrVal(AllString)]

PredictMultiCell ==
  /\ Running("predict_multi")
  /\ \E r \in PredictResults(payload_multi) :
       /\ callLog' = Append(callLog, Call("predict", r # ErrorResponse))
       /\ requests' = Append(requests, [payload |-> payload_multi, response |-> r])
       /\ IF r = ErrorResponse
          THEN UNCHANGED <<response_multi_pred, s3Results>> /\ Raise
          ELSE /\ response_multi_pred' = r
               /\ s3Results' = s3Results \cup EndpointStores(payload_multi)
               /\ Advance
  /\ UNCHANGED <<fsVars, s3Train, s3Test, modelArtifact, endpoints, splitVars,
                 image, S3_inputs, predictor, loopVars, response_all_pred,
                 presentAtStart>>

PredictAllCell ==
  /\ Running("predict_all")
  /\ \E r \in PredictResults(payload_all) :
       /\ callLog' = Append(callLog, Call("predict", r # ErrorResponse))
       /\ requests' = Append(requests, [payload |-> payload_all, response |-> r])
       /\ IF r = ErrorResponse
          THEN UNCHANGED <<response_all_pred, s3Results>> /\ Raise
          ELSE /\ response_all_pred' = r
               /\ s3Results' = s3Results \cup EndpointStores(payload_all)
               /\ Advance
  /\ UNCHANGED <<fsVars, s3Train, s3Test, modelArtifact, endpoints, splitVars,
                 image, S3_inputs, predictor, loopVars, response_multi_pred,
                 presentAtStart>>

(***************************************************************************)
(* Clean up the resources: the three cells hold only commented-out code.   *)
(***************************************************************************)
\* the endpoints in service after the clean-up cells have run
AfterCleanup(eps) == eps

CleanupCell ==
  /\ Running("cleanup")
  /\ endpoints' = AfterCleanup(endpoints)
  /\ Advance
  /\ UNCHANGED <<fsVars, s3Train, s3Test, s3Results, modelArtifact, splitVars,
                 image, S3_inputs, predictor, loopVars, respVars, histVars>>

(***************************************************************************)
(* A new run: the kernel is restarted and the notebook run from the top.   *)
(***************************************************************************)
NoResponse == [type |-> "none"]

KernelInit ==
  /\ pc = "download"
  /\ err = "none"
  /\ data_dicts = <<>> /\ train_files = <<>> /\ test_demo_files = <<>>
  /\ image = 0
  /\ S3_inputs = FALSE
  /\ predictor = 0
  /\ test_demo_preds = <<>> /\ counter = 0 /\ totalslice = 0 /\ file = 0
  /\ response_multi_pred = NoResponse /\ response_all_pred = NoResponse
  /\ callLog = <<>> /\ requests = <<>> /\ presentAtStart = FALSE

Restart ==
  /\ pc = "done" \/ err # "none"
  /\ Cardinality(endpoints) < MaxEndpoints
  /\ pc' = "download"
  /\ err' = "none"
  /\ data_dicts' = <<>> /\ train_files' = <<>> /\ test_demo_files' = <<>>
  /\ image' = 0
  /\ S3_inputs' = FALSE
  /\ predictor' = 0
  /\ test_demo_preds' = <<>> /\ counter' = 0 /\ totalslice' = 0 /\ file' = 0
  /\ response_multi_pred' = NoResponse /\ response_all_pred' = NoResponse
  /\ callLog' = <<>> /\ requests' = <<>> /\ presentAtStart' = FALSE
  /\ UNCHANGED <<fsVars, cloudVars>>

Init ==
  /\ KernelInit
  /\ dataDir = FALSE /\ imagesTr = {} /\ labelsTr = {}
  /\ processedTrain = {} /\ processedTest = {}
  /\ s3Train = {} /\ s3Test = {} /\ s3Results = {}
  /\ modelArtifact = FALSE
  /\ endpoints = {}

Next ==
  \/ DownloadCell
  \/ SplitCell
  \/ VisualizeCell
  \/ MkdirsCell
  \/ CopyTrainCell
  \/ CopyTestCell
  \/ UploadTrainCell
  \/ UploadTestCell
  \/ FitCell
  \/ DeployCell
  \/ LoopSetup
  \/ LoopIter
  \/ ShowCell
  \/ PredictMultiCell
  \/ PredictAllCell
  \/ CleanupCell
  \/ Restart

Spec == Init /\ [][Next]_vars

(***************************************************************************)
(* Properties.                                                             *)
(***************************************************************************)
Past(c) == CellIndex(pc) > CellIndex(c)

Answered == {i \in 1..Len(requests) : requests[i].response # ErrorResponse}

PayloadKeys == {"bucket", "key", "file", "nslice"}

\* C1: a prediction request that is answered gets the pixel array of its
\* slice exactly when its nslice is an integer; for a "start:end" string or
\* "all" it gets the S3 location of the result, and the result is stored in
\* the bucket at that location.
C1_ResponseByNslice ==
  \A i \in Answered :
    LET p == requests[i].payload
        r == requests[i].response
    IN /\ (r.type = "pixels") <=> (p.nslice.type = "int")
       /\ (p.nslice.type = "int") =>
            r.pred = [file |-> p.file, slice |-> p.nslice.val]
       /\ (p.nslice.type = "str") =>
            /\ r.type = "s3uri"
            /\ r.uri.bucket = p.bucket /\ r.uri.file = p.file
            /\ r.uri \in s3Results

\* a run in which a slice, a range and the whole volume have been answered
C1_Witness ==
  /\ pc = "done" /\ err = "none"
  /\ \E i \in Answered : requests[i].response.type = "pixels"
  /\ response_multi_pred.type = "s3uri" /\ response_multi_pred.uri \in s3Results
  /\ response_all_pred.type = "s3uri" /\ response_all_pred.uri \in s3Results
  /\ response_all_pred.uri # response_multi_pred.uri

\* C2: every prediction request the notebook issues has exactly the keys
\* bucket, key, file and nslice, and its nslice is an integer, a "start:end"
\* range string or the literal "all".
C2_PayloadShape ==
  \A i \in 1..Len(requests) :
    LET p == requests[i].payload
    IN /\ DOMAIN p = PayloadKeys
       /\ \/ p.nslice.type = "int" /\ p.nslice.val \in Int
          \/ /\ p.nslice.type = "str"
             /\ IsRangeString(p.nslice.val) \/ p.nslice.val = AllString

\* the slice loop, the range request and the whole-volume request all issued
C2_Witness ==
  /\ \E i \in 1..Len(requests) : requests[i].payload.nslice.type = "int"
  /\ \E i \in 1..Len(requests) :
       /\ requests[i].payload.nslice.type = "str"
       /\ IsRangeString(requests[i].payload.nslice.val)
  /\ \E i \in 1..Len(requests) :
       /\ requests[i].payload.nslice.type = "str"
       /\ requests[i].payload.nslice.val = AllString

\* call `later` is only ever made after call `earlier` has returned normally
CalledAfter(later, earlier) ==
  \A i \in 1..Len(callLog) :
    callLog[i].call = later =>
      \E j \in 1..(i - 1) : callLog[j] = Call(earlier, TRUE)

\* C3: the training job is submitted only after the training data upload has
\* returned, the endpoint is deployed only after estimator.fit has completed,
\* and no prediction request is issued before the deployment has returned a
\* predictor.
C3_StepOrder ==
  /\ CalledAfter("fit", "upload_train")
  /\ CalledAfter("deploy", "fit")
  /\ CalledAfter("predict", "deploy")
  /\ (\E i \in 1..Len(callLog) : callLog[i].call = "fit") => S3_inputs
  /\ (\E i \in 1..Len(callLog) : callLog[i].call = "predict") => predictor \in endpoints

\* a prediction has been requested from a deployed endpoint
C3_Witness ==
  /\ Len(requests) > 0
  /\ callLog[Len(callLog)] = Call("predict", TRUE)
  /\ modelArtifact /\ s3Train # {}

\* the external calls of this run that raised
Failures == {i \in 1..Len(callLog) : ~callLog[i].ok}

\* C4: after the download cell completes without error the dataset files are
\* present under the data directory, and when they were already present the
\* cell downloads nothing.
C4_DownloadIfMissing ==
  /\ (Past("download") /\ err = "none") => DatasetPresent
  /\ (Past("download") /\ presentAtStart) =>
        \A i \in 1..Len(callLog) : callLog[i].call # "download"

\* the keys of a pair
HasPairKeys(d) == DOMAIN d = {"image", "label"}

\* C5: after the split, train_files is every pair except the last,
\* test_demo_files is exactly the last pair, the two are disjoint and
\* together hold every pair exactly once, and every pair has the keys
\* "image" and "label".
C5_Split ==
  Past("split") =>
    /\ Len(test_demo_files) = 1
    /\ test_demo_files[1] = data_dicts[Len(data_dicts)]
    /\ train_files = SubSeq(data_dicts, 1, Len(data_dicts) - 1)
    /\ train_files \o test_demo_files = data_dicts
    /\ \A i \in 1..Len(train_files) : train_files[i] # test_demo_files[1]
    /\ \A i, j \in 1..Len(data_dicts) : i # j => data_dicts[i] # data_dicts[j]
    /\ \A i \in 1..Len(data_dicts) : HasPairKeys(data_dicts[i])

\* C6: a failed external call is neither retried nor swallowed: it is the
\* last call of the run and the run has stopped in the cell that made it;
\* when the slice loop fails at slice k, test_demo_preds holds exactly the
\* responses of the slices before k and no later slice was requested.
C6_FailureStops ==
  /\ \A i \in Failures : i = Len(callLog) /\ err = pc /\ err # "none"
  /\ (err = "loop" /\ Failures # {}) =>
        /\ Len(test_demo_preds) = counter - nslicestart
        /\ Len(requests) = Len(test_demo_preds) + 1
        /\ \A i \in 1..Len(test_demo_preds) :
             /\ requests[i].payload.nslice = IntVal(nslicestart + i - 1)
             /\ requests[i].response = test_demo_preds[i]
             /\ test_demo_preds[i].type = "pixels"
        /\ requests[Len(requests)].payload.nslice = IntVal(counter)
        /\ requests[Len(requests)].response = ErrorResponse

\* the slice loop has failed at slice 3, after three answered slices
C6_Witness ==
  /\ err = "loop" /\ pc = "loop"
  /\ counter = 3 /\ Len(test_demo_preds) = 3
  /\ callLog[Len(callLog)] = Call("predict", FALSE)

\* C7: once the notebook has run to its end, the endpoint created by the
\* deployment step no longer exists.
C7_EndpointDeleted ==
  (pc = "done" /\ err = "none") => predictor \notin endpoints

\* the value of a digit, and of a numeral
DigitValue(c) == CHOOSE d \in 0..9 : DigitChars[d + 1] = c

RECURSIVE ParseInt(_)
ParseInt(s) ==
  IF Len(s) = 0 THEN 0
  ELSE 10 * ParseInt(SubSeq(s, 1, Len(s) - 1)) + DigitValue(s[Len(s)])

\* the two ends of a "start:end" string
RangeEnds(s) ==
  LET i == CHOOSE k \in 1..Len(s) : s[k] = ":"
  IN <<ParseInt(SubSeq(s, 1, i - 1)), ParseInt(SubSeq(s, i + 1, Len(s)))>>

\* C8: every slice index the notebook requests lies within the volume:
\* nsliceend <= totalslice, and 0 <= nslice < totalslice for each request of
\* the slice loop (and both ends of the requested range are below
\* totalslice), totalslice being the last dimension of the loaded test image.
C8_SliceInVolume ==
  /\ (pc = "loop" \/ Past("loop")) =>
        /\ totalslice = image
        /\ nsliceend <= totalslice
  /\ \A i \in 1..Len(requests) :
        requests[i].payload.nslice.type = "int" =>
          /\ 0 <= requests[i].payload.nslice.val
          /\ requests[i].payload.nslice.val < totalslice
  /\ \A i \in 1..Len(requests) :
        LET n == requests[i].payload.nslice
        IN (n.type = "str" /\ IsRangeString(n.val)) =>
             /\ RangeEnds(n.val) = <<slicestart, sliceend>>
             /\ RangeEnds(n.val)[1] <= RangeEnds(n.val)[2]
             /\ RangeEnds(n.val)[2] < totalslice

\* the loop has requested its last slice, 9, of a volume of depth 81
C8_Witness ==
  /\ totalslice = VisSlice + 1
  /\ \E i \in 1..Len(requests) :
       requests[i].payload.nslice = IntVal(nsliceend - 1)

====
